---- MODULE Spec2Model ----
(***************************************************************************)
(* Model of the Seplos BMS telemetry decoder                               *)
(* (components/seplos_bms/seplos_bms.cpp).                                 *)
(*                                                                         *)
(* A frame delivered by the transport is held in `data`; the handler       *)
(* on_seplos_modbus_data validates it and on_telemetry_data_ decodes it,   *)
(* calling publish_state_ once per value.  `pub` is the ordered log of     *)
(* these calls for the frame, `reads` the set of byte indices of `data`    *)
(* the handler has read.                                                   *)
(*                                                                         *)
(* Published floats are modelled as exact quotients [num, den]: the code's *)
(* `raw * 0.01f` is [num |-> raw, den |-> 100].  A quotient with den = 0   *)
(* is the result of a float division by zero (NaN or infinity).  Rounding  *)
(* of 32-bit floats is not modelled.                                       *)
(* Byte i of the C++ vector is data[i + 1] of the TLA+ sequence.           *)
(***************************************************************************)
EXTENDS Integers, Sequences, FiniteSets, TLC

\* Longest frame the transport delivers in the model.
MaxLen == 74

(***************************************************************************)
(* Frames delivered by the transport: eight synthetic 80-byte captures     *)
(* (four value profiles laid out for each of the two wire layouts), each   *)
(* cut to every length 0..MaxLen and tagged with each version byte.        *)
(***************************************************************************)
Frame1 ==
  << 3, 10, 17, 24, 31, 38, 45, 16, 12, 216, 12, 232, 12, 244, 12, 215,
     12, 238, 12, 229, 12, 225, 12, 221, 12, 233, 12, 240, 12, 232, 12, 239,
     12, 235, 12, 218, 12, 222, 6, 11, 166, 11, 160, 11, 151, 11, 166, 11,
     165, 11, 162, 104, 111, 253, 114, 20, 160, 52, 78, 160, 167, 66, 104, 3,
     19, 70, 80, 0, 70, 3, 232, 20, 159, 2, 9, 16, 23, 30, 37, 44 >>

Frame2 ==
  << 3, 10, 17, 24, 31, 38, 45, 20, 12, 228, 12, 228, 12, 228, 12, 228,
     12, 228, 12, 228, 12, 228, 12, 228, 12, 228, 12, 228, 12, 228, 12, 228,
     12, 228, 12, 228, 12, 228, 7, 11, 166, 11, 160, 11, 151, 11, 166, 11,
     165, 11, 162, 104, 111, 0, 92, 255, 255, 255, 255, 160, 167, 255, 255, 255,
     255, 255, 255, 255, 255, 255, 255, 255, 255, 2, 9, 16, 23, 30, 37, 44 >>

Frame3 ==
  << 3, 10, 17, 24, 31, 38, 45, 0, 0, 0, 255, 255, 0, 0, 255, 255,
     115, 122, 129, 136, 143, 150, 157, 164, 171, 178, 185, 192, 199, 206, 213, 220,
     227, 234, 241, 248, 255, 6, 0, 0, 0, 255, 255, 48, 55, 62, 69, 76,
     83, 90, 97, 104, 111, 128, 0, 0, 0, 0, 0, 160, 167, 0, 0, 0,
     0, 0, 0, 0, 0, 0, 0, 0, 0, 2, 9, 16, 23, 30, 37, 44 >>

Frame4 ==
  << 3, 10, 17, 24, 31, 38, 45, 5, 12, 244, 12, 215, 12, 244, 12, 215,
     12, 228, 129, 136, 143, 150, 157, 164, 171, 178, 185, 192, 199, 206, 213, 220,
     227, 234, 241, 248, 255, 6, 2, 10, 171, 10, 170, 48, 55, 62, 69, 76,
     83, 90, 97, 104, 111, 127, 255, 0, 1, 0, 1, 160, 167, 0, 2, 3,
     232, 0, 3, 0, 1, 3, 231, 227, 90, 2, 9, 16, 23, 30, 37, 44 >>

Frame5 ==
  << 3, 10, 17, 24, 31, 38, 45, 52, 16, 12, 216, 12, 232, 12, 244, 12,
     215, 12, 238, 12, 229, 12, 225, 12, 221, 12, 233, 12, 240, 12, 232, 12,
     239, 12, 235, 12, 218, 12, 222, 6, 11, 166, 11, 160, 11, 151, 11, 166,
     11, 165, 11, 162, 253, 114, 20, 160, 52, 78, 153, 160, 66, 104, 3, 19,
     70, 80, 0, 70, 3, 232, 20, 159, 251, 2, 9, 16, 23, 30, 37, 44 >>

Frame6 ==
  << 3, 10, 17, 24, 31, 38, 45, 52, 20, 12, 228, 12, 228, 12, 228, 12,
     228, 12, 228, 12, 228, 12, 228, 12, 228, 12, 228, 12, 228, 12, 228, 12,
     228, 12, 228, 12, 228, 12, 228, 7, 11, 166, 11, 160, 11, 151, 11, 166,
     11, 165, 11, 162, 0, 92, 255, 255, 255, 255, 153, 160, 255, 255, 255, 255,
     255, 255, 255, 255, 255, 255, 255, 255, 251, 2, 9, 16, 23, 30, 37, 44 >>

Frame7 ==
  << 3, 10, 17, 24, 31, 38, 45, 52, 0, 0, 0, 255, 255, 0, 0, 255,
     255, 122, 129, 136, 143, 150, 157, 164, 171, 178, 185, 192, 199, 206, 213, 220,
     227, 234, 241, 248, 255, 6, 13, 0, 0, 0, 255, 255, 55, 62, 69, 76,
     83, 90, 97, 104, 128, 0, 0, 0, 0, 0, 153, 160, 0, 0, 0, 0,
     0, 0, 0, 0, 0, 0, 0, 0, 251, 2, 9, 16, 23, 30, 37, 44 >>

Frame8 ==
  << 3, 10, 17, 24, 31, 38, 45, 52, 5, 12, 244, 12, 215, 12, 244, 12,
     215, 12, 228, 136, 143, 150, 157, 164, 171, 178, 185, 192, 199, 206, 213, 220,
     227, 234, 241, 248, 255, 6, 13, 2, 10, 171, 10, 170, 55, 62, 69, 76,
     83, 90, 97, 104, 127, 255, 0, 1, 0, 1, 153, 160, 0, 2, 3, 232,
     0, 3, 0, 1, 3, 231, 227, 90, 251, 2, 9, 16, 23, 30, 37, 44 >>

BaseFrames == {Frame1, Frame2, Frame3, Frame4, Frame5, Frame6, Frame7, Frame8}

\* 0x21 and 0x25 are the known protocol versions, 0x20 and 0xFF are not.
VersionBytes == {32, 33, 37, 255}

Truncate(base, ver, n) == [i \in 1..n |-> IF i = 1 THEN ver ELSE base[i]]

Frames == {Truncate(b, v, n) : b \in BaseFrames, v \in VersionBytes, n \in 0..MaxLen}

\* Values the operator configures as cell-count override.
OverrideValues == {4, 20}

VARIABLES
  data,                  \* the frame handed to on_seplos_modbus_data
  override_cell_count_,  \* operator override, 0 = not set
  handled,               \* TRUE once on_seplos_modbus_data has returned
  logged,                \* the handler's log line: "" | "E" | "W" | "I"
  cells,                 \* local `cells` of on_telemetry_data_
  pub,                   \* publish_state_ calls of the handler, in order
  reads                  \* indices i of data[i] evaluated by the handler

vars == <<data, override_cell_count_, handled, logged, cells, pub, reads>>

----------------------------------------------------------------------------
(* Exact quotients standing for the published floats. *)

Rat(n, d) == [num |-> n, den |-> d]

RatMul(a, b) == Rat(a.num * b.num, a.den * b.den)

\* sums and differences keep a shared denominator
RatAdd(a, b) ==
  IF a.den = b.den THEN Rat(a.num + b.num, a.den)
  ELSE Rat(a.num * b.den + b.num * a.den, a.den * b.den)

RatSub(a, b) ==
  IF a.den = b.den THEN Rat(a.num - b.num, a.den)
  ELSE Rat(a.num * b.den - b.num * a.den, a.den * b.den)

\* a < b for quotients with positive denominators
RatLt(a, b) == a.num * b.den < b.num * a.den

\* float / uint8_t
RatDiv(a, n) == Rat(a.num, a.den * n)

Zero == Rat(0, 1)

----------------------------------------------------------------------------
SEPLOS_PROTOCOL_V21 == 33

SEPLOS_PROTOCOL_V25 == 37

OFFSET_MAP ==
  (SEPLOS_PROTOCOL_V21 :> [
      cell_count_offset |-> 7,
      cell_voltages_start |-> 8,
      temp_sensor_count_offset |-> 38,
      temp_sensors_start |-> 39,
      current_offset |-> 53,
      total_voltage_offset |-> 55,
      residual_capacity_offset |-> 57,
      battery_capacity_offset |-> 61,
      soc_offset |-> 63,
      rated_capacity_offset |-> 65,
      cycles_offset |-> 67,
      soh_offset |-> 69,
      port_voltage_offset |-> 71 ])
  @@
  (SEPLOS_PROTOCOL_V25 :> [
      cell_count_offset |-> 8,
      cell_voltages_start |-> 9,
      temp_sensor_count_offset |-> 39,
      temp_sensors_start |-> 40,
      current_offset |-> 52,
      total_voltage_offset |-> 54,
      residual_capacity_offset |-> 56,
      battery_capacity_offset |-> 60,
      soc_offset |-> 62,
      rated_capacity_offset |-> 64,
      cycles_offset |-> 66,
      soh_offset |-> 68,
      port_voltage_offset |-> 70 ])

----------------------------------------------------------------------------
(* Helpers of on_telemetry_data_ *)

\* big-endian 16-bit read of data[i], data[i + 1]
seplos_get_16bit(d, i) == d[i + 1] * 256 + d[i + 2]

ToInt16Unsigned(u) == u

\* (int16_t) of a uint16_t: two's complement
ToInt16(u) == IF u >= 32768 THEN u - 65536 ELSE u

\* publish_state_(sensor, value); idx is the slot of cells_[] / temperatures_[],
\* 0 for the scalar sensors.  Every sensor is registered (non-null).
publish_state_(log, sensor, idx, value) ==
  Append(log, [sensor |-> sensor, idx |-> idx, value |-> value])

\* std::min / std::max on integers
MinInt(a, b) == IF b < a THEN b ELSE a

\* std::max(0.0f, power), std::min(0.0f, power), std::abs
RatMax0(p) == IF RatLt(Zero, p) THEN p ELSE Zero

RatMin0(p) == IF RatLt(p, Zero) THEN p ELSE Zero

RatAbs(p) == IF p.num < 0 THEN Rat(0 - p.num, p.den) ELSE p

\* data[i] where the code does not check i against data.size(): a read past
\* the end of the vector is undefined behaviour and may yield any byte.
UncheckedByte(d, i) == IF i < Len(d) THEN {d[i + 1]} ELSE 0..255

\* values of `cells` (line 94)
CellsRead(d, ov) ==
  IF ov # 0 THEN {ov}
  ELSE UncheckedByte(d, OFFSET_MAP[d[1]].cell_count_offset)

\* indices read by line 87 and line 94
HeaderReads(d, ov) ==
  IF ov # 0 THEN {0} ELSE {0, OFFSET_MAP[d[1]].cell_count_offset}

CellLimitUncapped(c) == c

\* loop bound of line 104
CellLimit(c) == MinInt(16, c)

IsNewMinOrEqual(v, m) == ~RatLt(m, v)

\* line 115
IsNewMin(v, m) == RatLt(v, m)

\* line 119
IsNewMax(v, m) == RatLt(m, v)

\* lines 104-124
RECURSIVE CellLoop(_, _, _, _, _)
CellLoop(d, offsets, c, i, st) ==
  IF ~(i < CellLimit(c)) THEN st
  ELSE
    LET pos == offsets.cell_voltages_start + (i * 2) IN
    IF pos + 1 >= Len(d) THEN st
    ELSE
      LET raw_voltage == seplos_get_16bit(d, pos)
          cell_voltage == RatMul(Rat(raw_voltage, 1), Rat(1, 1000))
          lt == IsNewMin(cell_voltage, st.min_cell_voltage)
          gt == IsNewMax(cell_voltage, st.max_cell_voltage)
      IN CellLoop(d, offsets, c, i + 1,
           [st EXCEPT
              !.average_cell_voltage = RatAdd(@, cell_voltage),
              !.min_cell_voltage = IF lt THEN cell_voltage ELSE @,
              !.min_voltage_cell = IF lt THEN i + 1 ELSE @,
              !.max_cell_voltage = IF gt THEN cell_voltage ELSE @,
              !.max_voltage_cell = IF gt THEN i + 1 ELSE @,
              !.pub = publish_state_(@, "cell_voltage", i, cell_voltage),
              !.reads = @ \cup {pos, pos + 1}])

AverageOverRead(st, c) ==
  RatDiv(st.average_cell_voltage, Len(st.pub))

\* line 125
AverageDivide(st, c) == RatDiv(st.average_cell_voltage, c)

\* statistics withheld when the loop read no cell
CellStatsFiltered(d, offsets, c, st0) ==
  LET st == CellLoop(d, offsets, c, 0,
              [pub |-> st0.pub, reads |-> st0.reads,
               min_cell_voltage |-> Rat(100, 1),
               max_cell_voltage |-> Rat(0 - 100, 1),
               average_cell_voltage |-> Zero,
               min_voltage_cell |-> 0,
               max_voltage_cell |-> 0])
      p1 == publish_state_(st.pub, "min_cell_voltage", 0, st.min_cell_voltage)
      p2 == publish_state_(p1, "max_cell_voltage", 0, st.max_cell_voltage)
      p3 == publish_state_(p2, "min_voltage_cell", 0, Rat(st.min_voltage_cell, 1))
      p4 == publish_state_(p3, "max_voltage_cell", 0, Rat(st.max_voltage_cell, 1))
      p5 == publish_state_(p4, "delta_cell_voltage", 0,
                           RatSub(st.max_cell_voltage, st.min_cell_voltage))
      p6 == publish_state_(p5, "average_cell_voltage", 0, AverageDivide(st, c))
  IN IF Len(st.pub) = Len(st0.pub)
     THEN [pub |-> st0.pub, reads |-> st.reads]
     ELSE [pub |-> p6, reads |-> st.reads]

\* lines 97-133
CellStats(d, offsets, c, st0) ==
  LET st == CellLoop(d, offsets, c, 0,
              [pub |-> st0.pub, reads |-> st0.reads,
               min_cell_voltage |-> Rat(100, 1),
               max_cell_voltage |-> Rat(0 - 100, 1),
               average_cell_voltage |-> Zero,
               min_voltage_cell |-> 0,
               max_voltage_cell |-> 0])
      average_cell_voltage == AverageDivide(st, c)
      p1 == publish_state_(st.pub, "min_cell_voltage", 0, st.min_cell_voltage)
      p2 == publish_state_(p1, "max_cell_voltage", 0, st.max_cell_voltage)
      p3 == publish_state_(p2, "min_voltage_cell", 0, Rat(st.min_voltage_cell, 1))
      p4 == publish_state_(p3, "max_voltage_cell", 0, Rat(st.max_voltage_cell, 1))
      p5 == publish_state_(p4, "delta_cell_voltage", 0,
                           RatSub(st.max_cell_voltage, st.min_cell_voltage))
      p6 == publish_state_(p5, "average_cell_voltage", 0, average_cell_voltage)
  IN [pub |-> p6, reads |-> st.reads]

\* lines 142-150
RECURSIVE TempLoop(_, _, _, _, _)
TempLoop(d, offsets, temperature_sensors, i, st) ==
  IF ~(i < MinInt(6, temperature_sensors)) THEN st
  ELSE
    LET pos == offsets.temp_sensors_start + (i * 2) IN
    IF pos + 1 >= Len(d) THEN st
    ELSE
      LET raw_temp == seplos_get_16bit(d, pos)
          temperature == RatMul(Rat(raw_temp - 2731, 1), Rat(1, 10))
      IN TempLoop(d, offsets, temperature_sensors, i + 1,
           [pub |-> publish_state_(st.pub, "temperature", i, temperature),
            reads |-> st.reads \cup {pos, pos + 1}])

TotalVoltageScaleFixed(protocol_version) == Rat(1, 100)

\* lines 165-169
TotalVoltageScale(protocol_version) ==
  IF protocol_version = SEPLOS_PROTOCOL_V21 THEN Rat(1, 100) ELSE Rat(1, 1000)

ChargingPowerUnclamped(power) == power

\* line 176
ChargingPower(power) == RatMax0(power)

\* line 177
DischargingPower(power) == RatAbs(RatMin0(power))

\* lines 153-179
Electrical(d, offsets, protocol_version, st) ==
  IF offsets.current_offset + 1 < Len(d) THEN
    LET raw_current == ToInt16(seplos_get_16bit(d, offsets.current_offset))
        current == RatMul(Rat(raw_current, 1), Rat(1, 100))
        p1 == publish_state_(st.pub, "current", 0, current)
        r1 == st.reads \cup {offsets.current_offset, offsets.current_offset + 1}
    IN
    IF offsets.total_voltage_offset + 1 < Len(d) THEN
      LET raw_voltage == seplos_get_16bit(d, offsets.total_voltage_offset)
          total_voltage == RatMul(Rat(raw_voltage, 1), TotalVoltageScale(protocol_version))
          power == RatMul(total_voltage, current)
          p2 == publish_state_(p1, "total_voltage", 0, total_voltage)
          p3 == publish_state_(p2, "power", 0, power)
          p4 == publish_state_(p3, "charging_power", 0, ChargingPower(power))
          p5 == publish_state_(p4, "discharging_power", 0, DischargingPower(power))
      IN [pub |-> p5,
          reads |-> r1 \cup {offsets.total_voltage_offset, offsets.total_voltage_offset + 1}]
    ELSE [pub |-> p1, reads |-> r1]
  ELSE st

safe_publish_strict(st, d, sensor, pos, coeff) ==
  IF pos + 2 < Len(d) THEN
    [pub |-> publish_state_(st.pub, sensor, 0,
                            RatMul(Rat(seplos_get_16bit(d, pos), 1), coeff)),
     reads |-> st.reads \cup {pos, pos + 1}]
  ELSE st

\* lines 182-189
safe_publish(st, d, sensor, pos, coeff) ==
  IF pos + 1 < Len(d) THEN
    LET raw == seplos_get_16bit(d, pos)
        value == RatMul(Rat(raw, 1), coeff)
    IN [pub |-> publish_state_(st.pub, sensor, 0, value),
        reads |-> st.reads \cup {pos, pos + 1}]
  ELSE st

\* lines 192-198
OtherParameters(d, offsets, st) ==
  LET s1 == safe_publish(st, d, "residual_capacity", offsets.residual_capacity_offset, Rat(1, 100))
      s2 == safe_publish(s1, d, "battery_capacity", offsets.battery_capacity_offset, Rat(1, 100))
      s3 == safe_publish(s2, d, "state_of_charge", offsets.soc_offset, Rat(1, 10))
      s4 == safe_publish(s3, d, "rated_capacity", offsets.rated_capacity_offset, Rat(1, 100))
      s5 == safe_publish(s4, d, "charging_cycles", offsets.cycles_offset, Rat(1, 1))
      s6 == safe_publish(s5, d, "state_of_health", offsets.soh_offset, Rat(1, 10))
      s7 == safe_publish(s6, d, "port_voltage", offsets.port_voltage_offset, Rat(1, 100))
  IN s7

\* lines 82-199; c is the value of `cells` read at line 94
on_telemetry_data_(d, ov, c) ==
  LET protocol_version == d[1]
      offsets == OFFSET_MAP[protocol_version]
      s0 == [pub |-> <<>>, reads |-> HeaderReads(d, ov)]
      s1 == CellStats(d, offsets, c, s0)
      offset == offsets.temp_sensor_count_offset
  IN
  IF offset >= Len(d) THEN s1
  ELSE
    LET temperature_sensors == d[offset + 1]
        s2 == TempLoop(d, offsets, temperature_sensors, 0,
                       [pub |-> s1.pub, reads |-> s1.reads \cup {offset}])
        s3 == Electrical(d, offsets, protocol_version, s2)
    IN OtherParameters(d, offsets, s3)

----------------------------------------------------------------------------
FrameTooShortBy7(d) == Len(d) < 7

\* line 67
FrameTooShort(d) == Len(d) < 8

TypeOK ==
  /\ data \in Seq(0..255)
  /\ override_cell_count_ \in 0..255
  /\ handled \in BOOLEAN
  /\ logged \in {"", "E", "W", "I"}
  /\ cells \in 0..255

Init ==
  /\ data \in Frames
  /\ override_cell_count_ = 0
  /\ handled = FALSE
  /\ logged = ""
  /\ cells = 0
  /\ pub = <<>>
  /\ reads = {}

\* configuration setter, called before any frame is decoded
set_override_cell_count(n) ==
  /\ ~handled
  /\ override_cell_count_ = 0
  /\ override_cell_count_' = n
  /\ UNCHANGED <<data, handled, logged, cells, pub, reads>>

\* lines 66-80
on_seplos_modbus_data ==
  /\ ~handled
  /\ handled' = TRUE
  /\ UNCHANGED <<data, override_cell_count_>>
  /\ IF FrameTooShort(data) THEN
       /\ logged' = "E"
       /\ UNCHANGED <<cells, pub, reads>>
     ELSE IF data[1] \notin DOMAIN OFFSET_MAP THEN
       /\ logged' = "W"
       /\ reads' = {0}
       /\ UNCHANGED <<cells, pub>>
     ELSE
       /\ logged' = "I"
       /\ \E c \in CellsRead(data, override_cell_count_) :
            LET r == on_telemetry_data_(data, override_cell_count_, c) IN
            /\ cells' = c
            /\ pub' = r.pub
            /\ reads' = r.reads

Next ==
  \/ \E n \in OverrideValues : set_override_cell_count(n)
  \/ on_seplos_modbus_data

Spec == Init /\ [][Next]_vars

----------------------------------------------------------------------------
(* Vocabulary of the properties *)

\* publications of one sensor, in order
PubOf(s) == SelectSeq(pub, LAMBDA e : e.sensor = s)

\* the handler has run on a frame that passes validation
Accepted == handled /\ Len(data) >= 8 /\ data[1] \in {33, 37}

Rejected == handled /\ (Len(data) < 8 \/ data[1] \notin {33, 37})

Layout == OFFSET_MAP[data[1]]

\* big-endian 16-bit value of the frame at byte offset off
RawAt(off) == data[off + 1] * 256 + data[off + 2]

\* equality of two quotients as values
RatEq(a, b) ==
  IF a.den = b.den THEN a.num = b.num
  ELSE /\ a.den # 0
       /\ b.den # 0
       /\ a.num * b.den = b.num * a.den

\* sensor s was published exactly once, with value v
PublishedOnce(s, v) == Len(PubOf(s)) = 1 /\ RatEq(PubOf(s)[1].value, v)

NotPublished(s) == Len(PubOf(s)) = 0

VersionScale == IF data[1] = 33 THEN 100 ELSE 1000

\* effective cell count: the override when non-zero, else the byte at the
\* layout's cell-count offset (beyond the frame: the byte the read produced)
EffectiveCount ==
  IF override_cell_count_ # 0 THEN override_cell_count_
  ELSE IF Layout.cell_count_offset < Len(data)
       THEN data[Layout.cell_count_offset + 1]
       ELSE cells

\* number of cell slots that fit in the frame
SlotsThatFit ==
  Cardinality({i \in 0..(MaxLen + 2) : Layout.cell_voltages_start + 2 * i + 1 < Len(data)})

Min3(a, b, c) ==
  IF a <= b /\ a <= c THEN a ELSE IF b <= c THEN b ELSE c

CellPubs == PubOf("cell_voltage")

RECURSIVE SumNum(_)
SumNum(s) == IF s = <<>> THEN 0 ELSE Head(s).value.num + SumNum(Tail(s))

----------------------------------------------------------------------------
\* C1: a rejected frame (shorter than 8 bytes, or first byte neither 0x21
\* nor 0x25) publishes no output field at all.
C1_RejectedPublishesNothing == Rejected => pub = <<>>

C1_Witness ==
  /\ handled
  /\ Len(data) = 7
  /\ data[1] = 33
  /\ logged = "E"
  /\ pub = <<>>

\* C2: with the total-voltage field in bounds, the published total voltage
\* is raw/100 V under version 0x21 and raw/1000 V under version 0x25.
C2_TotalVoltageScale ==
  (Accepted /\ Layout.total_voltage_offset + 1 < Len(data))
    => PublishedOnce("total_voltage",
                     Rat(RawAt(Layout.total_voltage_offset), VersionScale))

C2_Witness ==
  /\ Accepted
  /\ data[1] = 37
  /\ Layout.total_voltage_offset + 1 < Len(data)
  /\ RawAt(Layout.total_voltage_offset) = 5280
  /\ PublishedOnce("total_voltage", Rat(5280, 1000))

\* C3: with the port-voltage field in bounds, the published port voltage is
\* raw/100 V under version 0x21 and raw/1000 V under version 0x25.
C3_PortVoltageVersionScale ==
  (Accepted /\ Layout.port_voltage_offset + 1 < Len(data))
    => PublishedOnce("port_voltage",
                     Rat(RawAt(Layout.port_voltage_offset), VersionScale))

\* C4: the cell voltages published are exactly the slots 0..n-1 in ascending
\* order, n = min(16, effective cell count, slots that fit in the frame).
C4_CellCount ==
  Accepted =>
    LET n == Min3(16, EffectiveCount, SlotsThatFit) IN
    /\ Len(CellPubs) = n
    /\ \A k \in 1..n :
         /\ CellPubs[k].idx = k - 1
         /\ RatEq(CellPubs[k].value,
                  Rat(RawAt(Layout.cell_voltages_start + 2 * (k - 1)), 1000))

C4_Witness ==
  /\ Accepted
  /\ override_cell_count_ = 4
  /\ SlotsThatFit >= 16
  /\ data[Layout.cell_count_offset + 1] = 16
  /\ Len(CellPubs) = 4

\* C5: the published average cell voltage is the sum of the cell voltages
\* read divided by the effective cell count, not by the number read.
C5_AverageDivisor ==
  Accepted =>
    /\ Len(PubOf("average_cell_voltage")) = 1
    /\ LET avg == PubOf("average_cell_voltage")[1].value
           sum == SumNum(CellPubs)     \* in millivolt
       IN /\ (avg.den = 0) <=> (EffectiveCount = 0)
          /\ avg.den = 0 => avg.num = sum
          /\ avg.den # 0 =>
               IF sum = 0 THEN avg.num = 0
               ELSE /\ avg.den % 1000 = 0
                    /\ avg.num * EffectiveCount = sum * (avg.den \div 1000)

C5_Witness ==
  /\ Accepted
  /\ override_cell_count_ = 0
  /\ EffectiveCount = 16
  /\ Len(CellPubs) = 2
  /\ PubOf("average_cell_voltage")[1].value.den = 16000

\* C6: when at least one cell is read, min and max are the least and the
\* greatest read voltage, the min-cell and max-cell numbers are the 1-based
\* index of the first cell holding the extreme, and delta = max - min >= 0.
C6_MinMaxFirstIndex ==
  (Accepted /\ Len(CellPubs) >= 1) =>
    LET n == Len(CellPubs)
        v(k) == CellPubs[k].value.num
        lo == CHOOSE k \in 1..n : /\ \A j \in 1..n : v(k) <= v(j)
                                  /\ \A j \in 1..(k - 1) : v(j) # v(k)
        hi == CHOOSE k \in 1..n : /\ \A j \in 1..n : v(k) >= v(j)
                                  /\ \A j \in 1..(k - 1) : v(j) # v(k)
    IN /\ PublishedOnce("min_cell_voltage", Rat(v(lo), 1000))
       /\ PublishedOnce("max_cell_voltage", Rat(v(hi), 1000))
       /\ PublishedOnce("min_voltage_cell", Rat(lo, 1))
       /\ PublishedOnce("max_voltage_cell", Rat(hi, 1))
       /\ PublishedOnce("delta_cell_voltage", Rat(v(hi) - v(lo), 1000))
       /\ v(hi) - v(lo) >= 0

C6_Witness ==
  /\ Accepted
  /\ Len(CellPubs) = 4
  /\ CellPubs[1].value.num = 3288
  /\ CellPubs[2].value.num = 3304
  /\ CellPubs[3].value.num = 3316
  /\ CellPubs[4].value.num = 3287
  /\ PublishedOnce("min_cell_voltage", Rat(3287, 1000))
  /\ PublishedOnce("min_voltage_cell", Rat(4, 1))
  /\ PublishedOnce("max_cell_voltage", Rat(3316, 1000))
  /\ PublishedOnce("max_voltage_cell", Rat(3, 1))
  /\ PublishedOnce("delta_cell_voltage", Rat(29, 1000))

\* C7: whenever power is published, power = total voltage x current,
\* charging and discharging power are non-negative, at most one of them is
\* non-zero, and charging power - discharging power = power.
C7_PowerSplit ==
  (handled /\ Len(PubOf("power")) >= 1) =>
    /\ Len(PubOf("power")) = 1
    /\ Len(PubOf("total_voltage")) = 1
    /\ Len(PubOf("current")) = 1
    /\ Len(PubOf("charging_power")) = 1
    /\ Len(PubOf("discharging_power")) = 1
    /\ LET power == PubOf("power")[1].value
           tv == PubOf("total_voltage")[1].value
           cur == PubOf("current")[1].value
           chg == PubOf("charging_power")[1].value
           dis == PubOf("discharging_power")[1].value
       IN /\ power.den > 0 /\ chg.den > 0 /\ dis.den > 0
          /\ chg.num >= 0
          /\ dis.num >= 0
          /\ chg.num = 0 \/ dis.num = 0
          /\ RatEq(power, RatMul(tv, cur))
          /\ RatEq(chg, IF power.num > 0 THEN power ELSE Zero)
          /\ RatEq(dis, IF power.num < 0 THEN Rat(0 - power.num, power.den) ELSE Zero)
          /\ RatEq(RatSub(chg, dis), power)

C7_Witness ==
  /\ Accepted
  /\ PublishedOnce("current", Rat(0 - 654, 100))
  /\ PublishedOnce("total_voltage", Rat(5280, 100))
  /\ PublishedOnce("power", Rat(0 - 3453120, 10000))
  /\ PublishedOnce("charging_power", Zero)
  /\ PublishedOnce("discharging_power", Rat(3453120, 10000))

CapacityFields ==
  { <<"residual_capacity", Layout.residual_capacity_offset>>,
    <<"battery_capacity", Layout.battery_capacity_offset>>,
    <<"state_of_charge", Layout.soc_offset>>,
    <<"rated_capacity", Layout.rated_capacity_offset>>,
    <<"charging_cycles", Layout.cycles_offset>>,
    <<"state_of_health", Layout.soh_offset>>,
    <<"port_voltage", Layout.port_voltage_offset>> }

\* C8: each of residual capacity, battery capacity, SOC, rated capacity,
\* cycle count, SOH and port voltage is published if and only if its
\* offset + 1 < frame length, whatever else was out of bounds.
C8_FieldPublishedIffInBounds ==
  Accepted =>
    \A f \in CapacityFields :
      IF f[2] + 1 < Len(data) THEN Len(PubOf(f[1])) = 1
                              ELSE Len(PubOf(f[1])) = 0

\* the frame ends inside the capacity area: SOC is the last field that fits
C8_Witness ==
  /\ Accepted
  /\ Len(data) = Layout.soc_offset + 2
  /\ Len(PubOf("residual_capacity")) = 1
  /\ Len(PubOf("battery_capacity")) = 1
  /\ Len(PubOf("state_of_charge")) = 1
  /\ Len(PubOf("rated_capacity")) = 0
  /\ Len(PubOf("port_voltage")) = 0

\* C9: with current_offset + 1 < frame length the published current is the
\* big-endian 16-bit value read as two's-complement signed, times 0.01 A;
\* otherwise no current, total voltage or power is published.
C9_SignedCurrent ==
  Accepted =>
    IF Layout.current_offset + 1 < Len(data)
    THEN LET raw == RawAt(Layout.current_offset) IN
         PublishedOnce("current",
                       Rat(IF raw >= 32768 THEN raw - 65536 ELSE raw, 100))
    ELSE /\ NotPublished("current")
         /\ NotPublished("total_voltage")
         /\ NotPublished("power")

C9_Witness ==
  /\ Accepted
  /\ Layout.current_offset + 1 < Len(data)
  /\ RawAt(Layout.current_offset) = 32768
  /\ PublishedOnce("current", Rat(0 - 32768, 100))

\* C10: every byte index the decoder reads on a frame that passes validation
\* is strictly less than the frame length.
C10_ReadsInBounds ==
  Accepted => \A i \in reads : i < Len(data)

\* C11: when an accepted frame yields no cell voltage (effective cell count
\* 0, or the frame ends before the first cell slot), the statistics are still
\* published as they stand: minimum +100, maximum -100, min-cell and max-cell
\* number 0, delta -200; no cell voltage is published.
C11_SentinelsPublished ==
  (Accepted /\ (EffectiveCount = 0 \/ SlotsThatFit = 0)) =>
    /\ NotPublished("cell_voltage")
    /\ PublishedOnce("min_cell_voltage", Rat(100, 1))
    /\ PublishedOnce("max_cell_voltage", Rat(0 - 100, 1))
    /\ PublishedOnce("min_voltage_cell", Rat(0, 1))
    /\ PublishedOnce("max_voltage_cell", Rat(0, 1))
    /\ PublishedOnce("delta_cell_voltage", Rat(0 - 200, 1))

\* the device reports 0 cells although all sixteen slots are in the frame
C11_Witness ==
  /\ Accepted
  /\ override_cell_count_ = 0
  /\ SlotsThatFit >= 16
  /\ data[Layout.cell_count_offset + 1] = 0
  /\ NotPublished("cell_voltage")
  /\ PublishedOnce("min_cell_voltage", Rat(100, 1))
  /\ PublishedOnce("max_cell_voltage", Rat(0 - 100, 1))
  /\ PublishedOnce("delta_cell_voltage", Rat(0 - 200, 1))

====
